---- MODULE Spec2Model ----
(***************************************************************************)
(* The entity/component registry EntitySystem (src/unnamed/part_000).      *)
(*                                                                         *)
(* Entities are identified by their id; every handle the callers hold was  *)
(* returned by createEntity of this registry.  Component names are         *)
(* 1..MaxNames.  Component values are 0..MaxValue, where 0 stands for a    *)
(* falsy JavaScript value (0, "", false) and 1..MaxValue for distinct      *)
(* truthy values.  A JavaScript object used as a map is a function whose   *)
(* DOMAIN is the set of keys the object holds.                             *)
(*                                                                         *)
(* removeEntity stores in the removed registry the very object that the    *)
(* active registry keeps holding; `shared` names the ids for which the two *)
(* registries hold one object, so that a write through either is seen      *)
(* through both.  The model follows the registry for MaxCalls calls.       *)
(***************************************************************************)
EXTENDS Integers, Sequences, FiniteSets

\* Bounds of the model.
MaxEntities == 2
MaxNames == 2
MaxValue == 2
MaxCalls == 5

\* JavaScript's undefined (read of a missing key), null, and false.
Undefined == -1
Null == -2
False == -3

Names == 1..MaxNames
Values == 0..MaxValue
\* Arguments callers pass to createEntity(id): nothing, or an id.
CreateArgs == {Undefined, 0}

VARIABLES
    isLazySets,                 \* this.isLazySets
    counter,                    \* var counter
    entities,                   \* var entities: the ids of the active entities
    entityComponentMap,         \* var entityComponentMap: id -> map
    removedEntityComponentMap,  \* var removedEntityComponentMap: id -> map
    shared,                     \* ids whose removed map IS the object in entityComponentMap
    entitySets,                 \* var entitySets: name -> latest notification per entity
    entityFields,               \* entity[componentName] of every handle
    op,                         \* the most recent call and its arguments
    sent,                       \* name -> the calls the most recent operation made on that set
    hist,                       \* history: per (entity, name) the latest set/remove event
    issued,                     \* history: the ids createEntity returned, in order
    calls                       \* the number of calls made so far

vars == <<isLazySets, counter, entities, entityComponentMap,
          removedEntityComponentMap, shared, entitySets, entityFields,
          op, sent, hist, issued, calls>>

----------------------------------------------------------------------------
\* JavaScript objects as maps.

EmptyMap == [k \in {} |-> Undefined]
Lookup(m, k) == IF k \in DOMAIN m THEN m[k] ELSE Undefined
Put(m, k, v) == [x \in DOMAIN m \cup {k} |-> IF x = k THEN v ELSE m[x]]
Delete(m, k) == [x \in DOMAIN m \ {k} |-> m[x]]
Truthy(v) == v > 0

\* An entity set is the external EntitySet; the registry only calls
\* add/change/remove/flush on it.  The model keeps, per set, the latest
\* add/change/remove it received for each entity, and in `sent` the calls of
\* the most recent operation.
Note(kind, e) == [kind |-> kind, id |-> e]
NoSent == [n \in Names |-> <<>>]
NewSet == [e \in 0..(MaxEntities - 1) |-> "none"]

\* The registry's state as one value, for the operations below.
Reg ==
    [isLazySets |-> isLazySets,
     counter |-> counter,
     entities |-> entities,
     entityComponentMap |-> entityComponentMap,
     removedEntityComponentMap |-> removedEntityComponentMap,
     shared |-> shared,
     entitySets |-> entitySets,
     entityFields |-> entityFields,
     sent |-> NoSent]

\* A notification that never tells a set of a removal.
notifyLosesRemove(s, n, kind, e) ==
    IF kind = "remove"
    THEN s
    ELSE [s EXCEPT !.entitySets = [@ EXCEPT ![n] = [@ EXCEPT ![e] = kind]],
                   !.sent = [@ EXCEPT ![n] = Append(@, Note(kind, e))]]

\* entitySets[n].add / change / remove (entity)
notify(s, n, kind, e) ==
    [s EXCEPT !.entitySets = [@ EXCEPT ![n] = [@ EXCEPT ![e] = kind]],
              !.sent = [@ EXCEPT ![n] = Append(@, Note(kind, e))]]

----------------------------------------------------------------------------
\* Queries.

hasEntityIn(s, e) == e \in s.entities

getEntityByIDIn(s, id) == IF id \in s.entities THEN id ELSE Null

\* A lookup that prefers the removed version over the active one.
getComponentRemovedFirst(s, e, n) ==
    IF e \in DOMAIN s.removedEntityComponentMap
          /\ Truthy(Lookup(s.removedEntityComponentMap[e], n))
    THEN s.removedEntityComponentMap[e][n]
    ELSE IF e \in DOMAIN s.entityComponentMap
               /\ Truthy(Lookup(s.entityComponentMap[e], n))
         THEN s.entityComponentMap[e][n]
         ELSE Null

getComponentIn(s, e, n) ==
    IF e \in DOMAIN s.entityComponentMap
          /\ Truthy(Lookup(s.entityComponentMap[e], n))
    THEN s.entityComponentMap[e][n]
    ELSE IF e \in DOMAIN s.removedEntityComponentMap
               /\ Truthy(Lookup(s.removedEntityComponentMap[e], n))
         THEN s.removedEntityComponentMap[e][n]
         ELSE Null

\* A presence test by key (componentName in components): 1 stands for true.
hasComponentByKey(s, e, n) ==
    IF e \notin DOMAIN s.entityComponentMap
    THEN False
    ELSE IF n \in DOMAIN s.entityComponentMap[e] THEN 1 ELSE False

hasComponentIn(s, e, n) ==
    IF e \notin DOMAIN s.entityComponentMap
    THEN False
    ELSE Lookup(s.entityComponentMap[e], n)

hasEntity(e) == hasEntityIn(Reg, e)
getEntityByID(id) == getEntityByIDIn(Reg, id)
getComponent(e, n) == getComponentIn(Reg, e, n)
hasComponent(e, n) == hasComponentIn(Reg, e, n)
getAllEntities == entities

----------------------------------------------------------------------------
\* Operations, as functions of the registry's state.

\* An id generator that derives the id from the number of active entities.
generateUUIDFromActive(s) == Cardinality(s.entities)

generateUUID(s) == s.counter

\* A creation that takes the id its caller passes, when it passes one.
createEntityWithGivenId(s, id) ==
    LET e == IF id = Undefined THEN generateUUID(s) ELSE id IN
    [s EXCEPT !.counter = @ + 1,
              !.entities = @ \cup {e},
              !.entityComponentMap = Put(@, e, EmptyMap),
              !.entityFields = Put(@, e, EmptyMap)]

createEntity(s, id) ==
    LET e == generateUUID(s) IN
    [s EXCEPT !.counter = @ + 1,
              !.entities = @ \cup {e},
              !.entityComponentMap = Put(@, e, EmptyMap),
              !.entityFields = Put(@, e, EmptyMap)]

\* A removal that notifies only the sets of the components the entity carries.
removeEntityNotifiesOwnSets(s, e) ==
    IF e \notin s.entities
    THEN s
    ELSE LET own == DOMAIN s.entitySets \cap DOMAIN s.entityComponentMap[e]
         IN [s EXCEPT
                !.removedEntityComponentMap = Put(@, e, s.entityComponentMap[e]),
                !.shared = @ \cup {e},
                !.entitySets = [n \in DOMAIN @ |->
                    IF n \in own THEN [@[n] EXCEPT ![e] = "remove"] ELSE @[n]],
                !.sent = [n \in Names |->
                    IF n \in own THEN Append(@[n], Note("remove", e)) ELSE @[n]],
                !.entities = @ \ {e}]

removeEntity(s, e) ==
    IF e \notin s.entities
    THEN s
    ELSE LET moved == [s EXCEPT
                 !.removedEntityComponentMap = Put(@, e, s.entityComponentMap[e]),
                 !.shared = @ \cup {e}]
             notified == [moved EXCEPT
                 !.entitySets = [n \in DOMAIN @ |-> [@[n] EXCEPT ![e] = "remove"]],
                 !.sent = [n \in Names |->
                     IF n \in DOMAIN moved.entitySets
                     THEN Append(@[n], Note("remove", e))
                     ELSE @[n]]]
         IN [notified EXCEPT !.entities = @ \ {e}]

\* A set that always reports an addition.
setNoticeAlwaysAdd(components, n) == "add"

\* if (components[componentName]) entitySet.change(entity) else entitySet.add(entity)
setNotice(components, n) ==
    IF Truthy(Lookup(components, n)) THEN "change" ELSE "add"

setComponent(s, e, n, v) ==
    IF e \notin s.entities
    THEN s
    ELSE LET components == s.entityComponentMap[e]
             field == [s EXCEPT !.entityFields = [@ EXCEPT ![e] = Put(@, n, v)]]
             \* components[componentName] = component; the object may also be
             \* the one the removed map holds.
             store(t) == [t EXCEPT
                 !.entityComponentMap = [@ EXCEPT ![e] = Put(@, n, v)],
                 !.removedEntityComponentMap =
                     IF e \in t.shared THEN [@ EXCEPT ![e] = Put(@, n, v)] ELSE @]
         IN IF n \notin DOMAIN s.entitySets /\ s.isLazySets
            THEN store(field)
            ELSE LET withSet == IF n \notin DOMAIN s.entitySets
                                THEN [field EXCEPT !.entitySets = Put(@, n, NewSet)]
                                ELSE field
                 IN store(notify(withSet, n, setNotice(components, n), e))

\* A removal that starts a new removed map for the entity on every call.
removeComponentRestages(s, e, n) ==
    IF e \notin DOMAIN s.entityComponentMap
    THEN s
    ELSE LET components == s.entityComponentMap[e]
             s3 == [s EXCEPT
                 !.removedEntityComponentMap =
                     Put(@, e, Put(EmptyMap, n, Lookup(components, n))),
                 !.shared = @ \ {e},
                 !.entityComponentMap = [@ EXCEPT ![e] = Delete(@, n)]]
         IN IF n \in DOMAIN s3.entitySets
            THEN notify(s3, n, "remove", e)
            ELSE s3

removeComponent(s, e, n) ==
    IF e \notin DOMAIN s.entityComponentMap
    THEN s
    ELSE LET components == s.entityComponentMap[e]
             fresh == e \notin DOMAIN s.removedEntityComponentMap
             \* removedEntityComponentMap[entity.id] = {}
             s1 == IF fresh
                   THEN [s EXCEPT !.removedEntityComponentMap = Put(@, e, EmptyMap)]
                   ELSE s
             \* removedEntityComponentMap[entity.id][componentName] = components[componentName]
             s2 == [s1 EXCEPT
                 !.removedEntityComponentMap =
                     [@ EXCEPT ![e] = Put(@, n, Lookup(components, n))],
                 !.entityComponentMap =
                     IF e \in s1.shared
                     THEN [@ EXCEPT ![e] = Put(@, n, Lookup(components, n))]
                     ELSE @]
             \* delete entityComponentMap[entity.id][componentName]
             s3 == [s2 EXCEPT
                 !.entityComponentMap = [@ EXCEPT ![e] = Delete(@, n)],
                 !.removedEntityComponentMap =
                     IF e \in s2.shared THEN [@ EXCEPT ![e] = Delete(@, n)] ELSE @]
         IN IF n \in DOMAIN s3.entitySets
            THEN notify(s3, n, "remove", e)
            ELSE s3

\* A back-fill that adds every active entity, whatever it carries.
RECURSIVE backfillEveryEntity(_, _, _, _)
backfillEveryEntity(s, set, n, from) ==
    IF from >= s.counter
    THEN set
    ELSE backfillEveryEntity(s,
                  IF from \in s.entities
                  THEN [set EXCEPT !.members = [@ EXCEPT ![from] = "add"],
                                   !.calls = Append(@, Note("add", from))]
                  ELSE set,
                  n, from + 1)

\* for (var key in entities): integer keys are visited in ascending order.
RECURSIVE backfill(_, _, _, _)
backfill(s, set, n, from) ==
    IF from >= s.counter
    THEN set
    ELSE backfill(s,
                  IF from \in s.entities /\ Truthy(hasComponentIn(s, from, n))
                  THEN [set EXCEPT !.members = [@ EXCEPT ![from] = "add"],
                                   !.calls = Append(@, Note("add", from))]
                  ELSE set,
                  n, from + 1)

\* A query that builds and back-fills a new set on every call.
getEntitiesRebuilds(s, n) ==
    LET entitySet == backfill(s, [members |-> NewSet, calls |-> <<>>], n, 0)
    IN [s EXCEPT !.entitySets = Put(@, n, entitySet.members),
                 !.sent = [@ EXCEPT ![n] = entitySet.calls]]

getEntities(s, n) ==
    IF n \notin DOMAIN s.entitySets
    THEN LET entitySet == backfill(s, [members |-> NewSet, calls |-> <<>>], n, 0)
         IN [s EXCEPT !.entitySets = Put(@, n, entitySet.members),
                      !.sent = [@ EXCEPT ![n] = entitySet.calls]]
    ELSE s

\* A flush that forgets to drop the removed components.
flushChangesKeepsRemoved(s) ==
    [s EXCEPT !.sent = [n \in Names |->
                  IF n \in DOMAIN s.entitySets
                  THEN Append(@[n], Note("flush", Undefined))
                  ELSE @[n]]]

\* A flush that drops the removed components without committing the sets.
flushChangesSkipsSets(s) ==
    [s EXCEPT !.removedEntityComponentMap = EmptyMap,
              !.shared = {}]

flushChanges(s) ==
    [s EXCEPT !.sent = [n \in Names |->
                  IF n \in DOMAIN s.entitySets
                  THEN Append(@[n], Note("flush", Undefined))
                  ELSE @[n]],
              !.removedEntityComponentMap = EmptyMap,
              !.shared = {}]

\* for (var key in entities) this.removeEntity(entities[key])
RECURSIVE removeFrom(_, _)
removeFrom(s, from) ==
    IF from >= s.counter
    THEN s
    ELSE removeFrom(IF from \in s.entities THEN removeEntity(s, from) ELSE s,
                    from + 1)

\* A loop that ends after the first entity it removed.
removeAllEntitiesStopsEarly(s) ==
    IF s.entities = {}
    THEN s
    ELSE removeEntity(s, CHOOSE e \in s.entities : \A f \in s.entities : e <= f)

removeAllEntities(s) == removeFrom(s, 0)

----------------------------------------------------------------------------
\* History of the calls, for the claims that speak of "after ... until ...".
\* For every handle e and name n:
\*   rc     "staged" once removeComponent(e, n) was called and n was not
\*          attached to e again since, "flushed" once flushChanges followed,
\*          "no" otherwise;
\*   rcVal  the value e carried under n when that removeComponent found e
\*          active and carrying n, Undefined otherwise;
\*   re     "staged" once removeEntity removed e, "flushed" once flushChanges
\*          followed, "no" while e was never removed;
\*   reVal  the value e carried under n when it was removed, Undefined when
\*          it carried none.

Handles == DOMAIN entityComponentMap

NoHist == [rc |-> "no", rcVal |-> Undefined, re |-> "no", reVal |-> Undefined]

histAfterSet(h, s, e, n, v) ==
    IF e \in s.entities
    THEN [h EXCEPT ![e] = [@ EXCEPT ![n] = [@ EXCEPT !.rc = "no", !.rcVal = Undefined]]]
    ELSE h

histAfterRemoveComponent(h, s, e, n) ==
    IF h[e][n].rc = "no"
    THEN [h EXCEPT ![e] = [@ EXCEPT ![n] =
             [@ EXCEPT !.rc = "staged",
                       !.rcVal = IF e \in s.entities
                                 THEN Lookup(s.entityComponentMap[e], n)
                                 ELSE Undefined]]]
    ELSE h

histRemoved(h, s, e) ==
    [n \in Names |-> [h[e][n] EXCEPT !.re = "staged",
                                     !.reVal = Lookup(s.entityComponentMap[e], n)]]

histAfterRemoveEntity(h, s, e) ==
    IF e \in s.entities THEN [h EXCEPT ![e] = histRemoved(h, s, e)] ELSE h

histAfterRemoveAll(h, s) ==
    [e \in DOMAIN h |-> IF e \in s.entities THEN histRemoved(h, s, e) ELSE h[e]]

histAfterFlush(h) ==
    [e \in DOMAIN h |-> [n \in Names |->
        [h[e][n] EXCEPT !.rc = IF @ = "staged" THEN "flushed" ELSE @,
                        !.re = IF @ = "staged" THEN "flushed" ELSE @]]]

----------------------------------------------------------------------------
\* The state machine.

Call(name, e, n, v) == [name |-> name, e |-> e, n |-> n, v |-> v]

\* One more call is made: the model follows the registry for MaxCalls calls.
Called(name, e, n, v) ==
    /\ calls < MaxCalls
    /\ calls' = calls + 1
    /\ op' = Call(name, e, n, v)

Becomes(s) ==
    /\ isLazySets' = s.isLazySets
    /\ counter' = s.counter
    /\ entities' = s.entities
    /\ entityComponentMap' = s.entityComponentMap
    /\ removedEntityComponentMap' = s.removedEntityComponentMap
    /\ shared' = s.shared
    /\ entitySets' = s.entitySets
    /\ entityFields' = s.entityFields
    /\ sent' = s.sent

Init ==
    /\ isLazySets = FALSE
    /\ counter = 0
    /\ entities = {}
    /\ entityComponentMap = EmptyMap
    /\ removedEntityComponentMap = EmptyMap
    /\ shared = {}
    /\ entitySets = EmptyMap
    /\ entityFields = EmptyMap
    /\ op = Call("new", Undefined, Undefined, Undefined)
    /\ sent = NoSent
    /\ hist = EmptyMap
    /\ issued = <<>>
    /\ calls = 0

SetLazySets ==
    /\ Called("isLazySets", Undefined, Undefined, Undefined)
    /\ Becomes([Reg EXCEPT !.isLazySets = ~@])
    /\ UNCHANGED <<hist, issued>>

CreateEntity ==
    \E id \in CreateArgs :
        /\ counter < MaxEntities
        /\ Called("createEntity", generateUUID(Reg), Undefined, id)
        /\ Becomes(createEntity(Reg, id))
        /\ hist' = Put(hist, generateUUID(Reg), [n \in Names |-> NoHist])
        /\ issued' = Append(issued, generateUUID(Reg))

RemoveEntity ==
    \E e \in Handles :
        /\ Called("removeEntity", e, Undefined, Undefined)
        /\ Becomes(removeEntity(Reg, e))
        /\ hist' = histAfterRemoveEntity(hist, Reg, e)
        /\ UNCHANGED issued

SetComponent ==
    \E e \in Handles, n \in Names, v \in Values :
        /\ Called("setComponent", e, n, v)
        /\ Becomes(setComponent(Reg, e, n, v))
        /\ hist' = histAfterSet(hist, Reg, e, n, v)
        /\ UNCHANGED issued

RemoveComponent ==
    \E e \in Handles, n \in Names :
        /\ Called("removeComponent", e, n, Undefined)
        /\ Becomes(removeComponent(Reg, e, n))
        /\ hist' = histAfterRemoveComponent(hist, Reg, e, n)
        /\ UNCHANGED issued

GetEntities ==
    \E n \in Names :
        /\ Called("getEntities", Undefined, n, Undefined)
        /\ Becomes(getEntities(Reg, n))
        /\ UNCHANGED <<hist, issued>>

FlushChanges ==
    /\ Called("flushChanges", Undefined, Undefined, Undefined)
    /\ Becomes(flushChanges(Reg))
    /\ hist' = histAfterFlush(hist)
    /\ UNCHANGED issued

RemoveAllEntities ==
    /\ Called("removeAllEntities", Undefined, Undefined, Undefined)
    /\ Becomes(removeAllEntities(Reg))
    /\ hist' = histAfterRemoveAll(hist, Reg)
    /\ UNCHANGED issued

Next ==
    \/ SetLazySets
    \/ CreateEntity
    \/ RemoveEntity
    \/ SetComponent
    \/ RemoveComponent
    \/ GetEntities
    \/ FlushChanges
    \/ RemoveAllEntities

Spec == Init /\ [][Next]_vars

\* The registry used with isLazySets chosen once, before the first call, and
\* with components that are objects (truthy values).
SetLazySetsAtStart ==
    /\ calls = 0
    /\ SetLazySets

SetTruthyComponent ==
    \E e \in Handles, n \in Names, v \in {w \in Values : Truthy(w)} :
        /\ Called("setComponent", e, n, v)
        /\ Becomes(setComponent(Reg, e, n, v))
        /\ hist' = histAfterSet(hist, Reg, e, n, v)
        /\ UNCHANGED issued

NextFixedMode ==
    \/ SetLazySetsAtStart
    \/ CreateEntity
    \/ RemoveEntity
    \/ SetTruthyComponent
    \/ RemoveComponent
    \/ GetEntities
    \/ FlushChanges
    \/ RemoveAllEntities

SpecFixedMode == Init /\ [][NextFixedMode]_vars

----------------------------------------------------------------------------
\* Claims.

\* C1: after removeComponent(e, n) on an active entity e that carried the
\* value v under n, hasComponent(e, n) is false and getComponent(e, n)
\* returns v in every state before the next flushChanges, whatever other
\* operations run, as long as n is not set on e again.  Stated here for the
\* truthy values v only.
C1_RemovedComponentReadableUntilFlush ==
    \A e \in Handles, n \in Names :
        (hist[e][n].rc = "staged" /\ Truthy(hist[e][n].rcVal))
            => /\ ~Truthy(hasComponent(e, n))
               /\ getComponent(e, n) = hist[e][n].rcVal

\* C2: after removeEntity(e) on an active entity e followed by flushChanges,
\* getComponent(e, n) returns null for every name n.
C2_RemovedEntityGoneAfterFlush ==
    \A e \in Handles, n \in Names :
        hist[e][n].re = "flushed" => getComponent(e, n) = Null

\* C3: after removeComponent(e, n) followed by flushChanges, with no
\* setComponent(e, n, _) in between, getComponent(e, n) returns null, and
\* keeps returning it until n is attached to e again.
C3_RemovedComponentGoneAfterFlush ==
    \A e \in Handles, n \in Names :
        hist[e][n].rc = "flushed" => getComponent(e, n) = Null

\* A component that was readable after its removal is gone with the flush,
\* and stays gone while other operations follow.
C3_Witness ==
    /\ op.name \notin {"flushChanges", "removeComponent"}
    /\ \E e \in entities, n \in Names :
          /\ hist[e][n].rc = "flushed"
          /\ Truthy(hist[e][n].rcVal)
          /\ hist[e][n].re = "no"

C5_OneNoticeByPresence ==
    [][(op'.name = "setComponent" /\ op'.e \in entities)
          => sent'[op'.n] =
                <<Note(IF op'.n \in DOMAIN entityComponentMap[op'.e]
                       THEN "change" ELSE "add", op'.e)>>]_vars

\* C5, amended: a setComponent(e, n, v) on an active entity sends no
\* notification when isLazySets is on and no entity set exists for n;
\* otherwise it sends exactly one notification to the entity set for n, and
\* none to any other set: change when e's active component map held a truthy
\* value under n before the call, add when n was absent or its value falsy.
C5_OneNoticeByTruthiness ==
    [][(op'.name = "setComponent" /\ op'.e \in entities)
          => sent' =
                IF isLazySets /\ op'.n \notin DOMAIN entitySets
                THEN NoSent
                ELSE [NoSent EXCEPT ![op'.n] =
                        <<Note(IF Truthy(Lookup(entityComponentMap[op'.e], op'.n))
                               THEN "change" ELSE "add", op'.e)>>]]_vars

\* A second setComponent on the same (e, n), with another value, was reported
\* as a change.
C5_Witness ==
    /\ op.name = "setComponent"
    /\ op.e \in entities
    /\ sent[op.n] = <<Note("change", op.e)>>
    /\ entitySets[op.n][op.e] = "change"

\* C6: setComponent, removeComponent and removeEntity called with an entity
\* that was already removed are no-ops: the active-entities table, the active
\* and removed component registries and the entity-set table stay as they
\* are, and no entity set is notified.
C6_CallsOnRemovedEntityAreNoOps ==
    [][(/\ op'.name \in {"setComponent", "removeComponent", "removeEntity"}
        /\ op'.e \in Handles \ entities)
          => /\ UNCHANGED <<entities, entityComponentMap,
                            removedEntityComponentMap, entitySets>>
             /\ sent' = NoSent]_vars

\* C7: after removeEntity(e) on an active entity e, for every name n that e
\* carried with value v, getComponent(e, n) returns v in every state before
\* the next flushChanges, whatever other operations are called in between.
\* Stated here for the truthy values v only.
C7_RemovedEntityReadableUntilFlush ==
    \A e \in Handles, n \in Names :
        (hist[e][n].re = "staged" /\ Truthy(hist[e][n].reVal))
            => getComponent(e, n) = hist[e][n].reVal

\* C8: removeEntity(e) on an active entity e makes hasEntity(e) false and
\* sends one remove notification for e to every entity set that exists at
\* the time of the call; on an entity that is not active it sends none.
C8_RemoveEntityNotifiesEverySet ==
    [][op'.name = "removeEntity"
          => IF op'.e \in entities
             THEN /\ op'.e \notin entities'
                  /\ \A n \in Names :
                        sent'[n] = IF n \in DOMAIN entitySets
                                   THEN <<Note("remove", op'.e)>>
                                   ELSE <<>>
             ELSE sent' = NoSent]_vars

\* An entity was removed while a set existed for a name it never carried,
\* and that set was notified.
C8_Witness ==
    /\ op.name = "removeEntity"
    /\ ~hasEntity(op.e)
    /\ \E n \in DOMAIN entitySets :
          /\ n \notin DOMAIN entityFields[op.e]
          /\ sent[n] = <<Note("remove", op.e)>>
          /\ entitySets[n][op.e] = "remove"

Orders(S) ==
    {q \in [1..Cardinality(S) -> S] :
        \A i, j \in 1..Cardinality(S) : i # j => q[i] # q[j]}

RECURSIVE removeEach(_, _, _, _)
removeEach(s, order, i, last) ==
    IF i > last THEN s ELSE removeEach(removeEntity(s, order[i]), order, i + 1, last)

Notices(q) == {q[i] : i \in 1..Len(q)}

\* C10: removeAllEntities leaves the active-entities table empty, and the
\* state it produces (the registries and the remove notifications delivered
\* to each entity set) is the one produced by calling removeEntity once on
\* each entity that was active, in whatever order.
C10_RemoveAllIsRemoveEach ==
    [][op'.name = "removeAllEntities"
          => /\ entities' = {}
             /\ getAllEntities' = {}
             /\ \A order \in Orders(entities) :
                   LET r == removeEach(Reg, order, 1, Cardinality(entities)) IN
                   /\ r.entities = entities'
                   /\ r.entityComponentMap = entityComponentMap'
                   /\ r.removedEntityComponentMap = removedEntityComponentMap'
                   /\ r.shared = shared'
                   /\ r.entitySets = entitySets'
                   /\ \A n \in Names :
                         /\ Len(r.sent[n]) = Len(sent'[n])
                         /\ Notices(r.sent[n]) = Notices(sent'[n])]_vars

\* removeAllEntities removed two entities that carried components, and an
\* existing set was notified of both.
C10_Witness ==
    /\ op.name = "removeAllEntities"
    /\ getAllEntities = {}
    /\ \E n \in DOMAIN entitySets : Len(sent[n]) = 2
    /\ \E e, f \in shared :
          /\ e # f
          /\ DOMAIN removedEntityComponentMap[e] # {}
          /\ DOMAIN removedEntityComponentMap[f] # {}

\* The active entities for which hasComponent(e, n) is true.
Having(n) == {e \in entities : Truthy(hasComponent(e, n))}

\* What the first getEntities(n) does: it creates the set for n and sends it
\* one add for each active entity that has n, and for no other entity.
BackfillsOnFirstQuery ==
    (op'.name = "getEntities" /\ op'.n \notin DOMAIN entitySets)
        => /\ op'.n \in DOMAIN entitySets'
           /\ Len(sent'[op'.n]) = Cardinality(Having(op'.n))
           /\ Notices(sent'[op'.n]) = {Note("add", e) : e \in Having(op'.n)}
           /\ \A e \in Having(op'.n) : entitySets'[op'.n][e] = "add"

\* C11 as stated: with isLazySets on, setComponent(e, n, v) on an active
\* entity while no set exists for n stores v, makes hasComponent(e, n) true,
\* creates no entity set and sends no notification; the first getEntities(n)
\* afterwards creates the set and sends it an add for exactly the active
\* entities that have n.
C11_LazySetThenBackfill ==
    [][/\ (/\ op'.name = "setComponent"
           /\ op'.e \in entities
           /\ isLazySets
           /\ op'.n \notin DOMAIN entitySets)
             => /\ Lookup(entityComponentMap'[op'.e], op'.n) = op'.v
                /\ Truthy(hasComponentIn(Reg', op'.e, op'.n))
                /\ entitySets' = entitySets
                /\ sent' = NoSent
       /\ BackfillsOnFirstQuery]_vars

\* C11, amended: with isLazySets on, setComponent(e, n, v) on an active
\* entity while no set exists for n stores v, which makes hasComponent(e, n)
\* true when v is truthy and not true when v is falsy, creates no entity set
\* and sends no notification; the first getEntities(n) afterwards creates
\* the set and sends it an add for exactly the active entities for which
\* hasComponent(_, n) is true.
C11_LazySetTruthyThenBackfill ==
    [][/\ (/\ op'.name = "setComponent"
           /\ op'.e \in entities
           /\ isLazySets
           /\ op'.n \notin DOMAIN entitySets)
             => /\ Lookup(entityComponentMap'[op'.e], op'.n) = op'.v
                /\ Truthy(hasComponentIn(Reg', op'.e, op'.n)) <=> Truthy(op'.v)
                /\ entitySets' = entitySets
                /\ sent' = NoSent
       /\ BackfillsOnFirstQuery]_vars

\* In lazy mode a first query created the set of a name that one active
\* entity has and another active entity has not: only the first was added.
C11_Witness ==
    /\ op.name = "getEntities"
    /\ isLazySets
    /\ \E e, f \in entities :
          /\ Truthy(hasComponent(e, op.n))
          /\ ~Truthy(hasComponent(f, op.n))
          /\ sent[op.n] = <<Note("add", e)>>
          /\ entitySets[op.n][e] = "add"
          /\ entitySets[op.n][f] = "none"

\* C12: flushChanges invokes flush exactly once on every existing entity set
\* and leaves the removed-component registry empty; the active-entities
\* table, the active component registry, the id counter and the set of
\* existing entity sets stay as they are.
C12_FlushCommitsAndClears ==
    [][op'.name = "flushChanges"
          => /\ \A n \in Names :
                   sent'[n] = IF n \in DOMAIN entitySets
                              THEN <<Note("flush", Undefined)>>
                              ELSE <<>>
             /\ removedEntityComponentMap' = EmptyMap
             /\ UNCHANGED <<entities, entityComponentMap, counter>>
             /\ DOMAIN entitySets' = DOMAIN entitySets]_vars

\* A flush that found a set to commit and a staged component to drop.
C12_Witness ==
    /\ op.name = "flushChanges"
    /\ \E n \in DOMAIN entitySets : sent[n] = <<Note("flush", Undefined)>>
    /\ removedEntityComponentMap = EmptyMap
    /\ \E e \in entities, n \in Names :
          /\ hist[e][n].rc = "flushed"
          /\ Truthy(hist[e][n].rcVal)

\* C13: every entity id that has an entry in the active component registry
\* is also present in the active-entities table.
C13_ActiveMapsBelongToActiveEntities ==
    DOMAIN entityComponentMap \subseteq entities

\* C14: after removeEntity(e) on an active entity e, hasComponent(e, n) is
\* false for every name n, before and after the next flushChanges.
C14_RemovedEntityHasNoComponent ==
    \A e \in Handles, n \in Names :
        hist[e][n].re \in {"staged", "flushed"} => ~Truthy(hasComponent(e, n))

\* C15: between two flushChanges calls the removed-component registry only
\* grows: an (entity id, component name) entry staged there keeps its value
\* under every operation other than flushChanges.
C15_RemovedRegistryOnlyGrows ==
    [][op'.name # "flushChanges"
          => \A e \in DOMAIN removedEntityComponentMap :
                \A n \in DOMAIN removedEntityComponentMap[e] :
                    /\ e \in DOMAIN removedEntityComponentMap'
                    /\ n \in DOMAIN removedEntityComponentMap'[e]
                    /\ removedEntityComponentMap'[e][n]
                           = removedEntityComponentMap[e][n]]_vars

\* The entry a registry holds for entity f and name m: <<value>> or <<>>.
Entry(map, f, m) ==
    IF f \in DOMAIN map /\ m \in DOMAIN map[f] THEN <<map[f][m]>> ELSE <<>>

\* C16: removeComponent(e, n) affects only name n of entity e: every other
\* component of e in the active registry, every other name staged for e in
\* the removed registry and all entries of every other entity are unchanged,
\* and only the entity set of n (if it exists) is notified.
C16_RemoveComponentTouchesOnlyItsName ==
    [][op'.name = "removeComponent"
          => /\ UNCHANGED <<entities, counter>>
             /\ DOMAIN entityComponentMap' = DOMAIN entityComponentMap
             /\ DOMAIN entitySets' = DOMAIN entitySets
             /\ \A f \in Handles, m \in Names :
                   (f # op'.e \/ m # op'.n)
                       => /\ Entry(entityComponentMap', f, m)
                                = Entry(entityComponentMap, f, m)
                          /\ Entry(removedEntityComponentMap', f, m)
                                = Entry(removedEntityComponentMap, f, m)
             /\ \A f \in Handles \ {op'.e} :
                   f \in DOMAIN removedEntityComponentMap'
                       <=> f \in DOMAIN removedEntityComponentMap
             /\ \A m \in Names \ {op'.n} :
                   /\ sent'[m] = <<>>
                   /\ Lookup(entitySets', m) = Lookup(entitySets, m)
             /\ sent'[op'.n] = IF op'.n \in DOMAIN entitySets
                               THEN <<Note("remove", op'.e)>>
                               ELSE <<>>]_vars

\* A removal of one name while another name of the same entity is staged.
C16_Witness ==
    /\ op.name = "removeComponent"
    /\ op.e \in entities
    /\ sent[op.n] = <<Note("remove", op.e)>>
    /\ \E m \in Names \ {op.n} :
          /\ Entry(removedEntityComponentMap, op.e, m) # <<>>
          /\ Truthy(removedEntityComponentMap[op.e][m])
          /\ sent[m] = <<>>

\* The kind of the last notification about entity e in the sequence q, or
\* "none" when q holds none.
LastKind(q, e) ==
    LET at == {i \in 1..Len(q) : q[i].id = e}
    IN IF at = {} THEN "none"
       ELSE q[CHOOSE i \in at : \A j \in at : j <= i].kind

\* C17: getEntities(n) back-fills only once: when a set exists for n the call
\* sends no notification and changes no registry state; and a set, once
\* created, is never deleted or replaced by any operation: it stays in the
\* table and what it holds changes only by the notifications it receives.
C17_BackfillOnlyOnce ==
    [][/\ (op'.name = "getEntities" /\ op'.n \in DOMAIN entitySets)
            => /\ UNCHANGED <<isLazySets, counter, entities, entityComponentMap,
                             removedEntityComponentMap, shared, entitySets,
                             entityFields>>
               /\ sent' = NoSent
       /\ \A n \in DOMAIN entitySets :
            /\ n \in DOMAIN entitySets'
            /\ \A e \in DOMAIN entitySets[n] :
                  entitySets'[n][e] =
                      IF LastKind(sent'[n], e) = "none"
                      THEN entitySets[n][e]
                      ELSE LastKind(sent'[n], e)]_vars

\* A query of an existing set that holds what a back-fill would not give.
C17_Witness ==
    /\ op.name = "getEntities"
    /\ sent = NoSent
    /\ \E e \in entities : entitySets[op.n][e] = "change"

\* Entity e is active and carries a falsy value under n.
FalsyAttached(e, n) ==
    /\ e \in entities
    /\ n \in DOMAIN entityComponentMap[e]
    /\ ~Truthy(entityComponentMap[e][n])

\* The registry with n deleted from e's active map.
Detached(e, n) ==
    [Reg EXCEPT !.entityComponentMap = [@ EXCEPT ![e] = Delete(@, n)]]

\* C18: a falsy component value is treated as absent by every presence test:
\* while an active entity e carries a falsy value under n, hasComponent(e, n)
\* is not true, getComponent(e, n) answers as if n were not in e's active
\* map, the next setComponent(e, n, _) that notifies the set reports an
\* addition, and the back-fill of getEntities(n) leaves e out.
C18_FalsyValueIsAbsent ==
    [][/\ \A e \in Handles', n \in Names :
             FalsyAttached(e, n)'
                 => /\ ~Truthy(hasComponent(e, n)')
                    /\ getComponent(e, n)' = getComponentIn(Detached(e, n), e, n)'
       /\ \A e \in Handles, n \in Names :
             FalsyAttached(e, n)
                 => /\ (op' = Call("setComponent", e, n, op'.v) /\ sent'[n] # <<>>)
                          => sent'[n] = <<Note("add", e)>>
                    /\ (op'.name = "getEntities" /\ op'.n = n
                           /\ n \notin DOMAIN entitySets)
                          => /\ entitySets'[n][e] = "none"
                             /\ LastKind(sent'[n], e) = "none"]_vars

\* A first query of a set while an active entity carries a falsy value under
\* its name: the back-fill passed the entity over.
C18_Witness ==
    /\ op.name = "getEntities"
    /\ \E e \in Handles :
          /\ FalsyAttached(e, op.n)
          /\ entitySets[op.n][e] = "none"
          /\ getComponent(e, op.n) = Null

\* The latest notification the set of n received about e is add or change.
Delivered(n, e) == entitySets[n][e] \in {"add", "change"}

\* Entity e is active and n is in its active component map.
Attached(e, n) == e \in entities /\ n \in DOMAIN entityComponentMap[e]

\* C19: with truthy component values and isLazySets fixed for the whole run,
\* for every existing entity set of a name n and every entity e ever created,
\* the latest notification the set received about e is add or change exactly
\* when e is active and carries n; and a set never receives add for an entity
\* whose latest notification was add or change.
C19_IndexesFollowRegistry ==
    [][/\ \A n \in DOMAIN entitySets', e \in Handles' :
             Delivered(n, e)' <=> Attached(e, n)'
       /\ \A n \in DOMAIN entitySets, e \in Handles :
             Delivered(n, e) => Note("add", e) \notin Notices(sent'[n])]_vars

\* A lazily created set learnt of an entity by back-fill and is then told of
\* a change of its component.
C19_Witness ==
    /\ isLazySets
    /\ op.name = "setComponent"
    /\ sent[op.n] = <<Note("change", op.e)>>
    /\ Attached(op.e, op.n)
    /\ Delivered(op.n, op.e)

====
